---- MODULE Spec2Model ----
(***************************************************************************)
(* A model of pfastcgi.hpp: the FastCGI record codecs (FcgiHeader,         *)
(* FcgiRequestBeginBody, FcgiParams), the socket-owning FcgiManager with   *)
(* its two variants (FcgiManagerINET, FcgiManagerUnix) and the record      *)
(* builder operations (startParams, sendParams, endParams, readHeader).    *)
(*                                                                         *)
(* Bytes are naturals in 0..255; a buffer is a sequence of bytes.  An int  *)
(* argument is a natural below 2^31 (the non-negative ints).               *)
(***************************************************************************)
EXTENDS Integers, Sequences, FiniteSets, TLC

VARIABLES
    variant,   \* "INET" or "Unix": the concrete class of the manager
    phase,     \* "new" (before the constructor ran), "live", "destroyed"
    fcgifd,    \* FcgiManager::fcgifd_
    held,      \* ghost: index in socks of the socket() call that returned fcgifd (0: none)
    socks,     \* ghost: the sockets this manager created, in creation order
    nStart,    \* number of start() bodies executed so far (constructor included)
    last,      \* the most recent call on the manager and what it did
    in,        \* codec development: the chosen input
    obj        \* codec development: the object under construction (its bytes)

vars == <<variant, phase, fcgifd, held, socks, nStart, last, in, obj>>

---------------------------------------------------------------------------
(* Program constants. *)

kFcgiVersion == 1
kTypeBegin == 1
kTypeParams == 4
kTypeStdout == 6
kRoleResponder == 1
kRoleAuthorizer == 2
kRoleFilter == 3

\* sizeof(FcgiHeader), sizeof(FcgiRequestBeginBody), sizeof(FcgiParams):
\* eight Byte members each, no padding.
SizeofHeader == 8
SizeofBeginBody == 8
SizeofParams == 8

\* FcgiManager::fcgifd_ default member initializer: no descriptor.
NoFd == -1

---------------------------------------------------------------------------
(* Bounds of the model. *)

MaxStarts == 3     \* start() bodies per manager lifetime, constructor included
MaxLen == 2        \* longest short name / value / raw buffer
MaxOver == 3       \* how many sampled values above each power-of-two boundary
FirstFd == 3       \* lowest descriptor number the process has free

---------------------------------------------------------------------------
(* C integer arithmetic on non-negative ints. *)

Pow2(n) == 2 ^ n

\* INT_MAX: the largest value of an int argument
IntMax == (Pow2(30) - 1) + Pow2(30)

\* x >> n
Shr(x, n) == x \div Pow2(n)

\* x & 0xff, and the conversion of an int to Byte (unsigned char)
ToByte(x) == x % 256

\* x | 0x80
Or80(x) == IF (x \div 128) % 2 = 1 THEN x ELSE x + 128

---------------------------------------------------------------------------
(* FcgiHeader: eight bytes, in member order                                *)
(*   1 version, 2 type, 3 request_id1, 4 request_id0,                      *)
(*   5 content_length1, 6 content_length0, 7 padding_length, 8 reserved.   *)

FcgiHeader_swapped(type, content_length, request_id, padding_length) ==
    << ToByte(kFcgiVersion),
       ToByte(type),
       ToByte(request_id),
       ToByte(Shr(request_id, 8)),
       ToByte(content_length),
       ToByte(Shr(content_length, 8)),
       ToByte(padding_length),
       0 >>

FcgiHeader(type, content_length, request_id, padding_length) ==
    << ToByte(kFcgiVersion),
       ToByte(type),
       ToByte(Shr(request_id, 8)),
       ToByte(request_id),
       ToByte(Shr(content_length, 8)),
       ToByte(content_length),
       ToByte(padding_length),
       0 >>

\* (request_id1 << 8) + request_id0
request_id(h) == h[3] * 256 + h[4]

\* (content_length1 << 8) + content_length0
content_length(h) == h[5] * 256 + h[6]

set_request_id(h, id) ==
    [h EXCEPT ![3] = ToByte(Shr(id, 8)), ![4] = ToByte(id)]

set_content_length(h, len) ==
    [h EXCEPT ![5] = ToByte(Shr(len, 8)), ![6] = ToByte(len)]

---------------------------------------------------------------------------
(* FcgiRequestBeginBody: role1, role0, flags, reserved[5].  The two-       *)
(* argument constructor initialises only the first three members, so the   *)
(* five reserved bytes keep whatever the storage held: `junk` is that      *)
(* content, a sequence of five bytes.                                      *)

BoolToByte(b) == IF b THEN 1 ELSE 0

FcgiRequestBeginBody(role, keep_alive, junk) ==
    << ToByte(Shr(role, 8)), ToByte(role), BoolToByte(keep_alive) >> \o junk

---------------------------------------------------------------------------
(* FcgiParams: name_length3..0, value_length3..0.                          *)

FcgiParams_short(name_length, value_length) ==
    << IF name_length < 128 THEN ToByte(Shr(name_length, 24))
                            ELSE ToByte(Or80(Shr(name_length, 24))),
       ToByte(Shr(name_length, 16)),
       ToByte(Shr(name_length, 8)),
       ToByte(name_length),
       ToByte(Or80(Shr(value_length, 24))),
       ToByte(Shr(value_length, 16)),
       ToByte(Shr(value_length, 8)),
       ToByte(value_length) >>

FcgiParams(name_length, value_length) ==
    << ToByte(Or80(Shr(name_length, 24))),
       ToByte(Shr(name_length, 16)),
       ToByte(Shr(name_length, 8)),
       ToByte(name_length),
       ToByte(Or80(Shr(value_length, 24))),
       ToByte(Shr(value_length, 16)),
       ToByte(Shr(value_length, 8)),
       ToByte(value_length) >>

set_name_length(p, name_length) ==
    [p EXCEPT ![1] = ToByte(Or80(Shr(name_length, 24))),
              ![2] = ToByte(Shr(name_length, 16)),
              ![3] = ToByte(Shr(name_length, 8)),
              ![4] = ToByte(name_length)]

---------------------------------------------------------------------------
(* The record of the most recent call.                                     *)
(*   op      the operation called                                          *)
(*   args    its arguments                                                 *)
(*   buf     the bytes handed to send(), or the bytes recv() delivered     *)
(*   called  the socket call the operation issued last ("none" if none)    *)
(*   sys     the result of that socket call                                *)
(*   ret     what the operation returned to its caller                     *)

Void == [kind |-> "void", val |-> 0, hdr |-> <<>>]
IntRet(n) == [kind |-> "int", val |-> n, hdr |-> <<>>]
HeaderRet(h) == [kind |-> "header", val |-> 0, hdr |-> h]

NoCall ==
    [op |-> "none", args |-> <<>>, buf |-> <<>>, called |-> "none",
     sys |-> 0, ret |-> Void]

---------------------------------------------------------------------------
(* Codec development: the pure encoders and accessors applied to inputs    *)
(* drawn from bounded sets.                                                *)

\* Every 16-bit value, MaxOver values just above, and values near the top
\* of the non-negative int range.
HeaderValues ==
    (0 .. (65535 + MaxOver))
      \cup { Pow2(24) + i : i \in 0 .. MaxOver }
      \cup { IntMax - i : i \in 0 .. MaxOver }

\* Lengths around every byte boundary of a 31-bit length.
LenSamples ==
    { x \in { Pow2(b) + d : b \in {0, 7, 8, 16, 24}, d \in (0 - MaxOver) .. MaxOver } :
        x >= 0 }
      \cup { IntMax - i : i \in 0 .. MaxOver }

CodecInputs ==
    { [kind |-> "hdr", v |-> x, n |-> 0, m |-> 0] : x \in HeaderValues }
      \cup { [kind |-> "prm", v |-> 0, n |-> a, m |-> b] : a \in LenSamples, b \in LenSamples }

TransportIdle ==
    /\ variant = "INET"
    /\ phase = "new"
    /\ fcgifd = NoFd
    /\ held = 0
    /\ socks = <<>>
    /\ nStart = 0

InitCodec ==
    /\ TransportIdle
    /\ last = NoCall
    /\ in \in CodecInputs
    /\ obj = <<>>

TransportUnchanged == UNCHANGED <<variant, phase, fcgifd, held, socks, nStart>>

\* FcgiHeader(type, content_length): request_id takes its default, 1.
NewHeaderLen ==
    /\ in.kind = "hdr" /\ obj = <<>>
    /\ \E type \in {kTypeBegin, kTypeParams} :
         /\ obj' = FcgiHeader(type, in.v, 1, 0)
         /\ last' = [NoCall EXCEPT !.op = "FcgiHeader", !.args = <<type, in.v, 1, 0>>]
    /\ UNCHANGED in /\ TransportUnchanged

\* FcgiHeader(type, 0, request_id), as endParams builds it.
NewHeaderId ==
    /\ in.kind = "hdr" /\ obj = <<>>
    /\ obj' = FcgiHeader(kTypeParams, 0, in.v, 0)
    /\ last' = [NoCall EXCEPT !.op = "FcgiHeader", !.args = <<kTypeParams, 0, in.v, 0>>]
    /\ UNCHANGED in /\ TransportUnchanged

SetRequestId ==
    /\ in.kind = "hdr" /\ Len(obj) = SizeofHeader
    /\ last.op = "FcgiHeader"
    /\ obj' = set_request_id(obj, in.v)
    /\ last' = [NoCall EXCEPT !.op = "set_request_id", !.args = <<in.v>>]
    /\ UNCHANGED in /\ TransportUnchanged

SetContentLength ==
    /\ in.kind = "hdr" /\ Len(obj) = SizeofHeader
    /\ last.op = "FcgiHeader"
    /\ obj' = set_content_length(obj, in.v)
    /\ last' = [NoCall EXCEPT !.op = "set_content_length", !.args = <<in.v>>]
    /\ UNCHANGED in /\ TransportUnchanged

NewParams ==
    /\ in.kind = "prm" /\ obj = <<>>
    /\ obj' = FcgiParams(in.n, in.m)
    /\ last' = [NoCall EXCEPT !.op = "FcgiParams", !.args = <<in.n, in.m>>]
    /\ UNCHANGED in /\ TransportUnchanged

\* set_name_length applied to a params prefix built for (in.m, in.m).
SetNameLength ==
    /\ in.kind = "prm" /\ obj = <<>>
    /\ obj' = set_name_length(FcgiParams(in.m, in.m), in.n)
    /\ last' = [NoCall EXCEPT !.op = "set_name_length", !.args = <<in.n, in.m>>]
    /\ UNCHANGED in /\ TransportUnchanged

NextCodec ==
    \/ NewHeaderLen
    \/ NewHeaderId
    \/ SetRequestId
    \/ SetContentLength
    \/ NewParams
    \/ SetNameLength

SpecCodec == InitCodec /\ [][NextCodec]_vars

---------------------------------------------------------------------------
(* C7: for request_id and for content_length alike, splitting a value v    *)
(* into the two header bytes (constructor or setter) and recombining with  *)
(* the accessor yields v for v in 0..65535 and v mod 65536 above, with the *)
(* high byte first in the header; no error is signalled.                   *)

SplitOf(h, hi) == <<h[hi], h[hi + 1]>>

BigEndian16(v) == <<(v % 65536) \div 256, v % 256>>

C7_IdRoundTrip(v) ==
    /\ request_id(obj) = v % 65536
    /\ v <= 65535 => request_id(obj) = v
    /\ SplitOf(obj, 3) = BigEndian16(v)

C7_LenRoundTrip(v) ==
    /\ content_length(obj) = v % 65536
    /\ v <= 65535 => content_length(obj) = v
    /\ SplitOf(obj, 5) = BigEndian16(v)

\* C7: after the constructor or a setter stored v, the accessor gives v mod 65536
\* (v itself up to 65535) and the two bytes are v's high byte, then its low byte.
C7_HeaderRoundTrip ==
    /\ last.op = "FcgiHeader" =>
         C7_LenRoundTrip(last.args[2]) /\ C7_IdRoundTrip(last.args[3])
    /\ last.op = "set_request_id" => C7_IdRoundTrip(last.args[1])
    /\ last.op = "set_content_length" => C7_LenRoundTrip(last.args[1])

C7_Witness ==
    /\ last.op = "set_content_length"
    /\ in.v = 65535 + MaxOver
    /\ content_length(obj) = MaxOver - 1
    /\ request_id(obj) = MaxOver - 1

---------------------------------------------------------------------------
(* C8: for name_length and value_length in 0..2^31-1 the params prefix is  *)
(* eight bytes: each length as four big-endian bytes with the top bit of   *)
(* its first byte set, the long form being used below 128 as well.         *)

\* The 31-bit big-endian value of four bytes, top bit of the first dropped.
Decode31(b3, b2, b1, b0) ==
    (b3 % 128) * Pow2(24) + b2 * Pow2(16) + b1 * Pow2(8) + b0

IsByte(b) == b \in 0 .. 255

C8_LongForm(p, hi, len) ==
    /\ \A i \in hi .. (hi + 3) : IsByte(p[i])
    /\ p[hi] >= 128
    /\ Decode31(p[hi], p[hi + 1], p[hi + 2], p[hi + 3]) = len

\* C8: both lengths are encoded in the 4-byte long form, whatever their size.
C8_ParamsPrefix ==
    /\ last.op = "FcgiParams" =>
         /\ Len(obj) = 8
         /\ C8_LongForm(obj, 1, last.args[1])
         /\ C8_LongForm(obj, 5, last.args[2])
         /\ (last.args = <<1, 1>> => obj = <<128, 0, 0, 1, 128, 0, 0, 1>>)
    /\ last.op = "set_name_length" =>
         /\ Len(obj) = 8
         /\ C8_LongForm(obj, 1, last.args[1])
         /\ C8_LongForm(obj, 5, last.args[2])

C8_Witness ==
    /\ last.op = "FcgiParams"
    /\ last.args = <<1, IntMax>>
    /\ obj = <<128, 0, 0, 1, 255, 255, 255, 255>>

---------------------------------------------------------------------------
(* The process's sockets.  A socket this manager created is a record       *)
(*   fd      the descriptor number socket() returned                       *)
(*   st      "unconnected", "connected" or "closed"                        *)
(*   closes  ghost: how many close() calls the manager made with the value *)
(*           this socket() call returned                                   *)

IsOpen(s, n) == \E k \in DOMAIN s : s[k].fd = n /\ s[k].st # "closed"

IsConnected(s, n) == \E k \in DOMAIN s : s[k].fd = n /\ s[k].st = "connected"

\* close(n): the open socket numbered n, if any, is closed (EBADF otherwise).
SysClose(s, n) ==
    [k \in DOMAIN s |->
        IF s[k].fd = n /\ s[k].st # "closed" THEN [s[k] EXCEPT !.st = "closed"] ELSE s[k]]

\* FcgiManager::closeSocket() with fcgifd_ = fd_, obtained from socket h.
closeSocket(s, fd_, h) ==
    IF fd_ # NoFd
    THEN SysClose([k \in DOMAIN s |->
                      IF k = h THEN [s[k] EXCEPT !.closes = @ + 1] ELSE s[k]], fd_)
    ELSE s

\* socket(): the lowest free descriptor number, or -1 when the call fails.
LowestFree(s) ==
    CHOOSE n \in FirstFd .. (FirstFd + Len(s)) :
        /\ ~IsOpen(s, n)
        /\ \A m \in FirstFd .. (n - 1) : IsOpen(s, m)

SysSocket(s, ok) ==
    IF ok
    THEN [fd |-> LowestFree(s),
          socks |-> Append(s, [fd |-> LowestFree(s), st |-> "unconnected", closes |-> 0])]
    ELSE [fd |-> -1, socks |-> s]

\* connect(n, ...): 0 and the socket connected, or -1.
SysConnect(s, n, ok) ==
    IF ok /\ IsOpen(s, n)
    THEN [res |-> 0,
          socks |-> [k \in DOMAIN s |->
                        IF s[k].fd = n /\ s[k].st # "closed"
                        THEN [s[k] EXCEPT !.st = "connected"] ELSE s[k]]]
    ELSE [res |-> -1, socks |-> s]

\* inet_pton(AF_INET, addr, ...): 1 for a dotted quad, 0 otherwise.  Ports are
\* non-negative (start asserts it) and paths fit sun_path (strcpy is unchecked).
ValidAddrs == {"127.0.0.1", "10.0.0.2"}
Addrs == ValidAddrs \cup {"localhost"}
Ports == {9000}
Paths == {"/tmp/fcgi.sock"}

inet_pton(addr) == IF addr \in ValidAddrs THEN 1 ELSE 0

\* The results send(fd, buf, len, 0) can give: an error, a partial or a full write.
SendResults(s, n, len) ==
    IF IsConnected(s, n)
    THEN {-1, len} \cup (IF len > 1 THEN {len - 1} ELSE {})
    ELSE {-1}

\* The results recv(fd, buf, len, 0) can give: an error, end of stream, a short
\* or a full read.
RecvResults(s, n, len) ==
    IF IsConnected(s, n)
    THEN {-1, 0, len \div 2, len}
    ELSE {-1}

---------------------------------------------------------------------------
(* FcgiManagerINET::start and FcgiManagerUnix::start: the state after the  *)
(* body ran, and its result.                                               *)

StartOutcome(fd_, h, s, called, sys, ret) ==
    [fd |-> fd_, held |-> h, socks |-> s, called |-> called, sys |-> sys, ret |-> ret]

ConnectNew(s, sockOk, connOk) ==
    LET r == SysSocket(s, sockOk)
        c == SysConnect(r.socks, r.fd, connOk)
    IN  StartOutcome(r.fd, IF r.fd = -1 THEN 0 ELSE Len(r.socks), c.socks,
                     "connect", c.res, c.res)

startINET(addr, port, sockOk, connOk) ==
    LET s1 == closeSocket(socks, fcgifd, held)
    IN  IF inet_pton(addr) <= 0
        THEN StartOutcome(fcgifd, held, s1, "inet_pton", inet_pton(addr), -1)
        ELSE ConnectNew(s1, sockOk, connOk)

startUnix(path, sockOk, connOk) ==
    ConnectNew(closeSocket(socks, fcgifd, held), sockOk, connOk)

ApplyStart(o) ==
    /\ fcgifd' = o.fd
    /\ held' = o.held
    /\ socks' = o.socks
    /\ nStart' = nStart + 1

CodecUnchanged == UNCHANGED <<in, obj>>

\* FcgiManagerINET(addr, port) { start(addr, port); }
ConstructINET(addr, port, sockOk, connOk) ==
    /\ variant = "INET" /\ phase = "new"
    /\ LET o == startINET(addr, port, sockOk, connOk)
       IN  /\ ApplyStart(o)
           /\ last' = [op |-> "FcgiManagerINET", args |-> <<addr, port>>, buf |-> <<>>,
                       called |-> o.called, sys |-> o.sys, ret |-> Void]
    /\ phase' = "live"
    /\ UNCHANGED variant /\ CodecUnchanged

\* FcgiManagerUnix(path) { start(path); }
ConstructUnix(path, sockOk, connOk) ==
    /\ variant = "Unix" /\ phase = "new"
    /\ LET o == startUnix(path, sockOk, connOk)
       IN  /\ ApplyStart(o)
           /\ last' = [op |-> "FcgiManagerUnix", args |-> <<path>>, buf |-> <<>>,
                       called |-> o.called, sys |-> o.sys, ret |-> Void]
    /\ phase' = "live"
    /\ UNCHANGED variant /\ CodecUnchanged

StartINET(addr, port, sockOk, connOk) ==
    /\ variant = "INET" /\ phase = "live" /\ nStart < MaxStarts
    /\ LET o == startINET(addr, port, sockOk, connOk)
       IN  /\ ApplyStart(o)
           /\ last' = [op |-> "start", args |-> <<addr, port>>, buf |-> <<>>,
                       called |-> o.called, sys |-> o.sys, ret |-> IntRet(o.ret)]
    /\ UNCHANGED <<variant, phase>> /\ CodecUnchanged

StartUnix(path, sockOk, connOk) ==
    /\ variant = "Unix" /\ phase = "live" /\ nStart < MaxStarts
    /\ LET o == startUnix(path, sockOk, connOk)
       IN  /\ ApplyStart(o)
           /\ last' = [op |-> "start", args |-> <<path>>, buf |-> <<>>,
                       called |-> o.called, sys |-> o.sys, ret |-> IntRet(o.ret)]
    /\ UNCHANGED <<variant, phase>> /\ CodecUnchanged

\* virtual ~FcgiManager() { closeSocket(); }
Destroy ==
    /\ phase = "live"
    /\ socks' = closeSocket(socks, fcgifd, held)
    /\ phase' = "destroyed"
    /\ last' = [NoCall EXCEPT !.op = "~FcgiManager"]
    /\ UNCHANGED <<variant, fcgifd, held, nStart>> /\ CodecUnchanged

---------------------------------------------------------------------------
(* The inputs of the read / write operations.                              *)

\* C strings: the bytes before the terminating NUL, none of them zero.
Fill(b, n) == [i \in 1 .. n |-> b]
Keys == { Fill(65, n) : n \in 0 .. MaxLen } \cup { <<65, 66>> }
Values == { Fill(66, n) : n \in 0 .. MaxLen }

\* Keys whose length, with a value's, reaches and passes 65535.
LongKeys == { Fill(65, 65535 - d) : d \in 0 .. 1 }

Roles == {kRoleResponder, kRoleAuthorizer, kRoleFilter}
Ids == {258, 65537}
WideIds == {0, 1, 255, 256, 258, 32768, 65535, 65536, 65537, IntMax}

\* What uninitialised storage may hold: n bytes, here all alike.
JunkBytes == {0, 255}
Junk(n) == { Fill(b, n) : b \in JunkBytes }

\* Headers the peer may have put on the wire.
WireHeaders ==
    { FcgiHeader(kTypeStdout, 5, 258, 3) }

strlen(str) == Len(str)

TransportSame == UNCHANGED <<variant, phase, fcgifd, held, socks, nStart>>

\* doRead(buf, length): ::recv(fcgifd_, buf, length, flags).  `wire` is what
\* the peer sent; recv's result is any of RecvResults.
DoRead(length, wire) ==
    /\ phase = "live"
    /\ \E r \in RecvResults(socks, fcgifd, length) :
         last' = [op |-> "doRead", args |-> <<length>>,
                  buf |-> IF r > 0 THEN SubSeq(wire, 1, r) ELSE <<>>,
                  called |-> "recv", sys |-> r, ret |-> IntRet(r)]
    /\ TransportSame /\ CodecUnchanged

\* doWrite(buf, length): ::send(fcgifd_, buf, length, flags).
DoWrite(buf) ==
    /\ phase = "live"
    /\ \E r \in SendResults(socks, fcgifd, Len(buf)) :
         last' = [op |-> "doWrite", args |-> <<buf>>, buf |-> buf,
                  called |-> "send", sys |-> r, ret |-> IntRet(r)]
    /\ TransportSame /\ CodecUnchanged

\* readHeader(): a default-constructed (uninitialised) header, one doRead of
\* sizeof(header) bytes into it, the header returned whatever doRead gave.
ReadHeader(junk, wire) ==
    /\ phase = "live"
    /\ \E r \in RecvResults(socks, fcgifd, SizeofHeader) :
         last' = [op |-> "readHeader", args |-> <<>>,
                  buf |-> IF r > 0 THEN SubSeq(wire, 1, r) ELSE <<>>,
                  called |-> "recv", sys |-> r,
                  ret |-> HeaderRet([i \in 1 .. SizeofHeader |->
                                        IF i <= r THEN wire[i] ELSE junk[i]])]
    /\ TransportSame /\ CodecUnchanged

\* The FcgiRequestBegin message startParams builds: header, then body.
BeginMsg(role, keep_alive, id, junk) ==
    FcgiHeader(kTypeBegin, SizeofBeginBody, id, 0)
        \o FcgiRequestBeginBody(role, keep_alive, junk)

StartParams(role, keep_alive, id, junk) ==
    /\ phase = "live"
    /\ \E r \in SendResults(socks, fcgifd, SizeofHeader + SizeofBeginBody) :
         last' = [op |-> "startParams", args |-> <<role, keep_alive, id>>,
                  buf |-> BeginMsg(role, keep_alive, id, junk),
                  called |-> "send", sys |-> r, ret |-> IntRet(r)]
    /\ TransportSame /\ CodecUnchanged

\* The buffer sendParams fills: the header at offset 0, the params prefix at
\* sizeof(FcgiHeader), the key at kHeaderLength, the value right after the key;
\* all_length bytes in all.
kHeaderLength == SizeofParams + SizeofHeader

ParamsBuf_valueFirst(key, value, id) ==
    FcgiHeader(kTypeParams, strlen(key) + strlen(value), id, 0)
        \o FcgiParams(strlen(key), strlen(value)) \o value \o key

ParamsBuf(key, value, id) ==
    LET key_length == strlen(key)
        value_length == strlen(value)
    IN  FcgiHeader(kTypeParams, key_length + value_length, id, 0)
            \o FcgiParams(key_length, value_length) \o key \o value

SendParams(key, value, id) ==
    /\ phase = "live"
    /\ \E r \in SendResults(socks, fcgifd, kHeaderLength + strlen(key) + strlen(value)) :
         last' = [op |-> "sendParams", args |-> <<key, value, id>>,
                  buf |-> ParamsBuf(key, value, id),
                  called |-> "send", sys |-> r, ret |-> IntRet(r)]
    /\ TransportSame /\ CodecUnchanged

EndHeader_withBody(requestID) == FcgiHeader(kTypeParams, SizeofHeader, requestID, 0)

EndHeader(requestID) == FcgiHeader(kTypeParams, 0, requestID, 0)

EndParams(requestID) ==
    /\ phase = "live"
    /\ \E r \in SendResults(socks, fcgifd, SizeofHeader) :
         last' = [op |-> "endParams", args |-> <<requestID>>,
                  buf |-> EndHeader(requestID),
                  called |-> "send", sys |-> r, ret |-> IntRet(r)]
    /\ TransportSame /\ CodecUnchanged

---------------------------------------------------------------------------
(* The manager: construction, reconnects, reads and writes, destruction.   *)

Init ==
    /\ variant \in {"INET", "Unix"}
    /\ phase = "new"
    /\ fcgifd = NoFd
    /\ held = 0
    /\ socks = <<>>
    /\ nStart = 0
    /\ last = NoCall
    /\ in = [kind |-> "none", v |-> 0, n |-> 0, m |-> 0]
    /\ obj = <<>>

Next ==
    \/ \E addr \in Addrs, port \in Ports, sockOk \in BOOLEAN, connOk \in BOOLEAN :
          ConstructINET(addr, port, sockOk, connOk)
    \/ \E path \in Paths, sockOk \in BOOLEAN, connOk \in BOOLEAN :
          ConstructUnix(path, sockOk, connOk)
    \/ \E addr \in Addrs, port \in Ports, sockOk \in BOOLEAN, connOk \in BOOLEAN :
          StartINET(addr, port, sockOk, connOk)
    \/ \E path \in Paths, sockOk \in BOOLEAN, connOk \in BOOLEAN :
          StartUnix(path, sockOk, connOk)
    \/ Destroy
    \/ \E length \in 0 .. MaxLen, wire \in WireHeaders : DoRead(length, wire)
    \/ \E buf \in Values : DoWrite(buf)
    \/ \E junk \in Junk(SizeofHeader), wire \in WireHeaders : ReadHeader(junk, wire)
    \/ \E role \in Roles, keep_alive \in BOOLEAN, id \in Ids, junk \in Junk(5) :
          StartParams(role, keep_alive, id, junk)
    \/ \E key \in Keys, value \in Values, id \in Ids : SendParams(key, value, id)
    \/ \E id \in Ids : EndParams(id)

Spec == Init /\ [][Next]_vars

(* The record builder alone, on a freshly constructed manager.             *)

NextBuilder ==
    \/ \E addr \in Addrs, port \in Ports, sockOk \in BOOLEAN, connOk \in BOOLEAN :
          ConstructINET(addr, port, sockOk, connOk)
    \/ \E path \in Paths, sockOk \in BOOLEAN, connOk \in BOOLEAN :
          ConstructUnix(path, sockOk, connOk)
    \/ \E role \in Roles, keep_alive \in BOOLEAN, id \in Ids, junk \in Junk(5) :
          StartParams(role, keep_alive, id, junk)
    \/ \E key \in Keys, value \in Values, id \in Ids : SendParams(key, value, id)
    \/ \E id \in WideIds : EndParams(id)

SpecBuilder == Init /\ [][NextBuilder]_vars

(* sendParams alone, on an INET manager, with keys long enough for         *)
(* name_length + value_length to pass 16 bits.                             *)

InitLong == Init /\ variant = "INET"

NextLong ==
    \/ \E addr \in Addrs, port \in Ports, sockOk \in BOOLEAN, connOk \in BOOLEAN :
          ConstructINET(addr, port, sockOk, connOk)
    \/ \E key \in Keys \cup LongKeys, value \in Values, id \in Ids :
          SendParams(key, value, id)

SpecLong == InitLong /\ [][NextLong]_vars

---------------------------------------------------------------------------
(* C1: over a manager's lifetime every descriptor it obtained from         *)
(* socket() is closed exactly once: never twice at any time, and once by   *)
(* the time the manager is destroyed.                                      *)

C1_ClosedExactlyOnce ==
    \A k \in DOMAIN socks :
        /\ socks[k].closes <= 1
        /\ phase = "destroyed" => socks[k].closes = 1

---------------------------------------------------------------------------
(* C2: while the manager exists, the descriptor it holds is either none    *)
(* (-1) or a descriptor it created that is open now, and no other          *)
(* descriptor it created is open.                                          *)

C2_HeldIsOpenAndOwn ==
    phase # "destroyed" =>
        /\ \/ fcgifd = NoFd
           \/ /\ held \in DOMAIN socks
              /\ socks[held].fd = fcgifd
              /\ socks[held].st # "closed"
        /\ \A k \in DOMAIN socks :
              socks[k].st # "closed" => (k = held /\ socks[k].fd = fcgifd)

---------------------------------------------------------------------------
(* C3: whenever the connect, recv or send call an operation issued gave a  *)
(* negative result, the operation returned that result to its caller.      *)

C3_ErrorsReturned ==
    (last.called \in {"connect", "recv", "send"} /\ last.sys < 0) =>
        (last.ret.kind = "int" /\ last.ret.val = last.sys)

---------------------------------------------------------------------------
(* C4: in every record startParams, sendParams and endParams hand to the   *)
(* transport, the number of bytes after the 8-byte header equals the       *)
(* content_length the header encodes, padding_length being 0.              *)

BuilderOps == {"startParams", "sendParams", "endParams"}

HeaderOf(buf) == SubSeq(buf, 1, SizeofHeader)

\* C4: the bytes after the header are as many as its content_length says.
C4_ContentLengthIsBodyLength ==
    last.op \in BuilderOps =>
        /\ Len(last.buf) >= SizeofHeader
        /\ HeaderOf(last.buf)[7] = 0
        /\ Len(last.buf) - SizeofHeader = content_length(HeaderOf(last.buf))

---------------------------------------------------------------------------
(* C5: for a 16-bit request id, startParams hands the transport exactly    *)
(* the 16 bytes 01 01 id_hi id_lo 00 08 00 00, role_hi role_lo flags and   *)
(* five zero bytes, flags being 1 for keep_alive and 0 otherwise.          *)

C5_BeginRecordBytes ==
    (last.op = "startParams" /\ last.args[3] <= 65535) =>
        last.buf = << 1, 1, last.args[3] \div 256, last.args[3] % 256, 0, 8, 0, 0,
                      last.args[1] \div 256, last.args[1] % 256,
                      IF last.args[2] THEN 1 ELSE 0, 0, 0, 0, 0, 0 >>

---------------------------------------------------------------------------
(* C6: sendParams issues one write of 16 + name_length + value_length      *)
(* bytes: a params header, the 8-byte length prefix, the name, the value.  *)

C6_Layout(key, value) ==
    LET nl == Len(key)
        vl == Len(value)
        buf == last.buf
    IN  /\ last.called = "send"
        /\ Len(buf) = 16 + nl + vl
        /\ buf[1] = 1 /\ buf[2] = 4
        /\ C8_LongForm(buf, 9, nl)
        /\ C8_LongForm(buf, 13, vl)
        /\ SubSeq(buf, 17, 16 + nl) = key
        /\ SubSeq(buf, 17 + nl, 16 + nl + vl) = value

\* C6 as claimed: the header's content_length equals name_length + value_length
\* for every name and value.
C6_ContentLengthIsSum ==
    last.op = "sendParams" =>
        /\ C6_Layout(last.args[1], last.args[2])
        /\ content_length(HeaderOf(last.buf)) = Len(last.args[1]) + Len(last.args[2])

\* C6 amended: the header's content_length is name_length + value_length
\* modulo 65536, the sum itself when it is at most 65535.
C6_ContentLengthIsSumMod ==
    last.op = "sendParams" =>
        /\ C6_Layout(last.args[1], last.args[2])
        /\ content_length(HeaderOf(last.buf))
              = (Len(last.args[1]) + Len(last.args[2])) % 65536

C6_Witness ==
    /\ last.op = "sendParams"
    /\ Len(last.args[1]) + Len(last.args[2]) = 65537
    /\ content_length(HeaderOf(last.buf)) = 1
    /\ last.ret = IntRet(16 + 65537)

---------------------------------------------------------------------------
(* C9: for a 16-bit request id, endParams hands the transport exactly the  *)
(* eight bytes 01 04 id_hi id_lo 00 00 00 00 and returns the result of     *)
(* that one send.                                                          *)

C9_EndRecord ==
    (last.op = "endParams" /\ last.args[1] <= 65535) =>
        /\ last.buf = << 1, 4, last.args[1] \div 256, last.args[1] % 256, 0, 0, 0, 0 >>
        /\ last.called = "send"
        /\ last.ret = IntRet(last.sys)

C9_Witness ==
    /\ last.op = "endParams"
    /\ last.args = <<258>>
    /\ last.buf = <<1, 4, 1, 2, 0, 0, 0, 0>>
    /\ last.ret = IntRet(8)

---------------------------------------------------------------------------
(* C10: the record builder keeps no state: a read or write operation never *)
(* changes the descriptor the manager holds, every one of them can be      *)
(* called whatever was called before, and the bytes a builder operation    *)
(* hands to the transport depend on its arguments alone, so the same call  *)
(* made twice in a row hands over the same bytes.                          *)

IoOps == BuilderOps \cup {"readHeader", "doRead", "doWrite"}

\* C10: no descriptor change, no rejected call, bytes a function of the arguments.
C10_BuilderStateless ==
    [][ /\ last'.op \in IoOps => fcgifd' = fcgifd
        /\ phase = "live" =>
              /\ ENABLED StartParams(kRoleResponder, TRUE, 258, Fill(0, 5))
              /\ ENABLED SendParams(<<65>>, <<66>>, 258)
              /\ ENABLED EndParams(258)
        /\ (last'.op \in BuilderOps /\ last'.op = last.op /\ last'.args = last.args) =>
              last'.buf = last.buf ]_vars

====
